---- MODULE Spec2Model ----
(***************************************************************************)
(* smart-env: schema-driven parsing and validation of environment          *)
(* variables (src/src/core/parser.ts, src/src/core/validator.ts).          *)
(*                                                                         *)
(* Encoding of JavaScript values.  A JS string is a record                 *)
(* [t |-> "string", c |-> <<characters>>] whose characters are one-letter  *)
(* TLA+ strings, so that length, trimming, case folding, pattern search    *)
(* and numeric parsing are computed character by character.  Texts that    *)
(* the code only builds by template (message, expected) are TLA+ strings;  *)
(* Join turns characters into such a text.                                 *)
(***************************************************************************)
EXTENDS Integers, Sequences, FiniteSets, TLC

VARIABLES schema, env, last

vars == <<schema, env, last>>

----------------------------------------------------------------------------
(* JavaScript values *)

Undefined == [t |-> "undefined"]

Null == [t |-> "null"]

NaN == [t |-> "NaN"]

Str(chars) == [t |-> "string", c |-> chars]

Bool(b) == [t |-> "boolean", b |-> b]

RECURSIVE Pow10(_)
Pow10(k) == IF k = 0 THEN 1 ELSE 10 * Pow10(k - 1)

(* A finite decimal n/d, d a power of ten, without trailing zero digits in *)
(* the fraction, so that equal numbers have equal encodings.               *)
RECURSIVE Num(_, _)
Num(n, d) == IF d > 1 /\ n % 10 = 0 THEN Num(n \div 10, d \div 10)
             ELSE [t |-> "number", n |-> n, d |-> d]

(* The member every plain object inherits under the key "constructor":     *)
(* the function Object.  It is neither undefined nor a string.             *)
ObjectFunction == [t |-> "function", name |-> "Object"]

(* String(Object), what a pattern test, URL or JSON.parse sees of it.      *)
ObjectFunctionText ==
  <<"f","u","n","c","t","i","o","n"," ","O","b","j","e","c","t","(",")"," ",
    "{"," ","[","n","a","t","i","v","e"," ","c","o","d","e","]"," ","}">>

(* Function.prototype.length of Object. *)
ObjectFunctionLength == 1

----------------------------------------------------------------------------
(* Characters and strings *)

RECURSIVE Join(_)
Join(chars) == IF chars = <<>> THEN "" ELSE Head(chars) \o Join(Tail(chars))

RECURSIVE JoinWith(_, _)
JoinWith(texts, sep) ==
  IF texts = <<>> THEN ""
  ELSE IF Len(texts) = 1 THEN texts[1]
  ELSE texts[1] \o sep \o JoinWith(Tail(texts), sep)

UpperLetters == <<"A","B","C","D","E","F","G","H","I","J","K","L","M",
                  "N","O","P","Q","R","S","T","U","V","W","X","Y","Z">>

LowerLetters == <<"a","b","c","d","e","f","g","h","i","j","k","l","m",
                  "n","o","p","q","r","s","t","u","v","w","x","y","z">>

DigitChars == <<"0","1","2","3","4","5","6","7","8","9">>

IsDigit(ch) == \E i \in 1..10 : DigitChars[i] = ch

DigitVal(ch) == (CHOOSE i \in 1..10 : DigitChars[i] = ch) - 1

IsAlpha(ch) == \E i \in 1..26 : UpperLetters[i] = ch \/ LowerLetters[i] = ch

ToLowerChar(ch) ==
  IF \E i \in 1..26 : UpperLetters[i] = ch
  THEN LowerLetters[CHOOSE i \in 1..26 : UpperLetters[i] = ch]
  ELSE ch

ToLowerCase(chars) == [i \in 1..Len(chars) |-> ToLowerChar(chars[i])]

WhiteSpace == {" ", "\t", "\n"}

RECURSIVE TrimStart(_)
TrimStart(chars) ==
  IF chars # <<>> /\ Head(chars) \in WhiteSpace THEN TrimStart(Tail(chars))
  ELSE chars

RECURSIVE TrimEnd(_)
TrimEnd(chars) ==
  IF chars # <<>> /\ chars[Len(chars)] \in WhiteSpace
  THEN TrimEnd(SubSeq(chars, 1, Len(chars) - 1))
  ELSE chars

Trim(chars) == TrimEnd(TrimStart(chars))

AllDigits(chars) == \A i \in 1..Len(chars) : IsDigit(chars[i])

RECURSIVE DigitsToNat(_)
DigitsToNat(chars) ==
  IF chars = <<>> THEN 0
  ELSE 10 * DigitsToNat(SubSeq(chars, 1, Len(chars) - 1))
       + DigitVal(chars[Len(chars)])

RECURSIVE NatToChars(_)
NatToChars(n) ==
  IF n < 10 THEN <<DigitChars[n + 1]>>
  ELSE NatToChars(n \div 10) \o <<DigitChars[(n % 10) + 1]>>

RECURSIVE PadZeros(_, _)
PadZeros(chars, width) ==
  IF Len(chars) >= width THEN chars ELSE PadZeros(<<"0">> \o chars, width)

IntToChars(i) == IF i < 0 THEN <<"-">> \o NatToChars(0 - i) ELSE NatToChars(i)

(* The position of the first occurrence of ch in chars, 0 when none. *)
IndexOf(chars, ch) ==
  IF \E i \in 1..Len(chars) : chars[i] = ch
  THEN CHOOSE i \in 1..Len(chars) :
         chars[i] = ch /\ \A j \in 1..(i - 1) : chars[j] # ch
  ELSE 0

----------------------------------------------------------------------------
(* Number(value) and String(num), src/src/core/parser.ts:113, 146          *)
(*                                                                         *)
(* StringToNumber on the decimal literals: surrounding white space is      *)
(* dropped, the empty string is 0, then an optional sign, digits and at    *)
(* most one dot with a digit on one side of it.  Everything else is NaN.   *)
(* (Exponents, radix prefixes and "Infinity" are outside the alphabet of   *)
(* the raw values below.)                                                  *)

IsDecimalBody(body) ==
  LET dot == IndexOf(body, ".") IN
    IF dot = 0 THEN body # <<>> /\ AllDigits(body)
    ELSE LET ip == SubSeq(body, 1, dot - 1)
             fp == SubSeq(body, dot + 1, Len(body))
         IN AllDigits(ip) /\ AllDigits(fp) /\ Len(ip) + Len(fp) >= 1

DecimalBodyValue(body) ==
  LET dot == IndexOf(body, ".") IN
    IF dot = 0 THEN [n |-> DigitsToNat(body), d |-> 1]
    ELSE LET ip == SubSeq(body, 1, dot - 1)
             fp == SubSeq(body, dot + 1, Len(body))
         IN [n |-> DigitsToNat(ip \o fp), d |-> Pow10(Len(fp))]

ToNumber(v) ==
  IF v.t # "string" THEN NaN
  ELSE LET s == Trim(v.c) IN
    IF s = <<>> THEN Num(0, 1)
    ELSE LET signed == Head(s) \in {"+", "-"}
             body   == IF signed THEN Tail(s) ELSE s
             sgn    == IF Head(s) = "-" THEN 0 - 1 ELSE 1
         IN IF IsDecimalBody(body)
            THEN LET q == DecimalBodyValue(body) IN Num(sgn * q.n, q.d)
            ELSE NaN

IsNaN(num) == num.t = "NaN"

IsInteger(num) == num.t = "number" /\ num.d = 1

(* num < bound and num > bound for an integer bound *)
NumLess(num, bound) == num.n < bound * num.d

(* Mutation: the maximum itself is rejected. *)
NumGreater_OrEqual(num, bound) == num.n >= bound * num.d

NumGreater(num, bound) == num.n > bound * num.d

Abs(i) == IF i < 0 THEN 0 - i ELSE i

NumberToChars(num) ==
  IF num.t = "NaN" THEN <<"N", "a", "N">>
  ELSE LET a     == Abs(num.n)
           whole == NatToChars(a \div num.d)
           width == Len(NatToChars(num.d)) - 1
           frac  == IF num.d = 1 THEN <<>>
                    ELSE <<".">> \o PadZeros(NatToChars(a % num.d), width)
       IN (IF num.n < 0 THEN <<"-">> ELSE <<>>) \o whole \o frac

----------------------------------------------------------------------------
(* RegExp.prototype.test, src/src/core/parser.ts:93                        *)
(*                                                                         *)
(* A compiled pattern is [source, global, lastIndex]: the source is a      *)
(* literal to be found anywhere in the subject, global is the g flag and   *)
(* lastIndex is the mutable field of the RegExp object.  A pattern with    *)
(* the g flag starts its search at lastIndex and leaves lastIndex behind   *)
(* the match, or at 0 when it fails; without g the search starts at 0 and  *)
(* lastIndex is untouched.                                                 *)

NoPattern == [kind |-> "none"]

RegExp(source, global) ==
  [kind |-> "regexp", source |-> source, global |-> global, lastIndex |-> 0]

ToStringChars(v) ==
  IF v.t = "string" THEN v.c
  ELSE IF v.t = "function" THEN ObjectFunctionText
  ELSE <<"u","n","d","e","f","i","n","e","d">>

MatchesAt(source, subject, i) ==
  /\ i + Len(source) <= Len(subject)
  /\ SubSeq(subject, i + 1, i + Len(source)) = source

RegExpTest(re, v) ==
  LET subject == ToStringChars(v)
      start   == IF re.global THEN re.lastIndex ELSE 0
      hits    == {i \in start..Len(subject) : MatchesAt(re.source, subject, i)}
  IN IF hits = {}
     THEN [matched |-> FALSE,
           re |-> IF re.global THEN [re EXCEPT !.lastIndex = 0] ELSE re]
     ELSE LET i == CHOOSE h \in hits : \A k \in hits : h <= k
          IN [matched |-> TRUE,
              re |-> IF re.global
                     THEN [re EXCEPT !.lastIndex = i + Len(re.source)]
                     ELSE re]

(* `${config.pattern}` *)
RegExpText(re) == "/" \o Join(re.source) \o "/" \o (IF re.global THEN "g" ELSE "")

----------------------------------------------------------------------------
(* new URL(value), src/src/core/parser.ts:198                              *)
(*                                                                         *)
(* The URL parser without a base: the input is stripped of surrounding     *)
(* white space and of tabs and newlines; it must begin with a scheme       *)
(* (a letter, then letters, digits, "+", "-", "."), ended by ":".  The     *)
(* scheme is lower-cased.  A special scheme needs a non-empty host after   *)
(* any number of slashes; a host holds no forbidden character and a port   *)
(* is a number up to 65535.  Other schemes have a host only after "//".    *)
(* (User info, IPv4/IPv6 literals and percent escapes are outside the      *)
(* alphabet of the raw values below.)                                      *)

SpecialSchemes == {"http", "https", "ftp", "ws", "wss"}

ForbiddenHostChars == {" ", "#", "<", ">", "?", "@", "[", "]", "^", "|", "%"}

MaxPort == 65535

IsSchemeChar(ch) == IsAlpha(ch) \/ IsDigit(ch) \/ ch \in {"+", "-", "."}

RECURSIVE DropSlashes(_)
DropSlashes(chars) ==
  IF chars # <<>> /\ Head(chars) \in {"/", "\\"} THEN DropSlashes(Tail(chars))
  ELSE chars

(* The prefix of chars before the first character of stops. *)
RECURSIVE Before(_, _)
Before(chars, stops) ==
  IF chars = <<>> \/ Head(chars) \in stops THEN <<>>
  ELSE <<Head(chars)>> \o Before(Tail(chars), stops)

HostPortOk(authority, needHost) ==
  LET host == Before(authority, {":"})
      port == SubSeq(authority, Len(host) + 2, Len(authority))
  IN /\ needHost => host # <<>>
     /\ \A i \in 1..Len(host) : host[i] \notin ForbiddenHostChars
     /\ AllDigits(port)
     /\ DigitsToNat(port) <= MaxPort

UrlParse(v) ==
  LET input == SelectSeq(Trim(ToStringChars(v)), LAMBDA ch : ch \notin {"\t", "\n"})
      colon == IndexOf(input, ":")
  IN IF ~ ( /\ colon >= 2
            /\ IsAlpha(input[1])
            /\ \A i \in 2..(colon - 1) : IsSchemeChar(input[i]) )
     THEN [ok |-> FALSE]
     ELSE LET scheme == ToLowerCase(SubSeq(input, 1, colon - 1))
              rest   == SubSeq(input, colon + 1, Len(input))
          IN IF Join(scheme) \in SpecialSchemes
             THEN [ok |-> HostPortOk(Before(DropSlashes(rest), {"/", "\\", "?", "#"}), TRUE),
                   protocol |-> scheme \o <<":">>]
             ELSE IF Join(scheme) # "file" /\ Len(rest) >= 2 /\ SubSeq(rest, 1, 2) = <<"/", "/">>
             THEN [ok |-> HostPortOk(Before(SubSeq(rest, 3, Len(rest)), {"/", "?", "#"}), FALSE),
                   protocol |-> scheme \o <<":">>]
             ELSE [ok |-> TRUE, protocol |-> scheme \o <<":">>]

----------------------------------------------------------------------------
(* JSON.parse(value), src/src/core/parser.ts:232                           *)
(*                                                                         *)
(* A JSON text is one value between optional white space: the literals     *)
(* true, false and null; a number (optional minus, an integer part without *)
(* leading zero, optionally a dot and digits); a string in double quotes   *)
(* without quote, backslash or control character; an array of values       *)
(* between brackets; an object of "name": value members between braces     *)
(* (its keys are kept as sequences of characters),                         *)
(* where a repeated name keeps its first place and takes the last value.   *)
(* Any other text is a syntax error.  (Escapes and exponents are outside   *)
(* the alphabet of the raw values below.)  Positions count from 1.         *)

IsJsonNumber(chars) ==
  LET body == IF chars # <<>> /\ Head(chars) = "-" THEN Tail(chars) ELSE chars
      dot  == IndexOf(body, ".")
      ip   == IF dot = 0 THEN body ELSE SubSeq(body, 1, dot - 1)
      fp   == IF dot = 0 THEN <<>> ELSE SubSeq(body, dot + 1, Len(body))
  IN /\ ip # <<>> /\ AllDigits(ip)
     /\ Len(ip) > 1 => ip[1] # "0"
     /\ dot # 0 => (fp # <<>> /\ AllDigits(fp))

IsJsonString(chars) ==
  /\ Len(chars) >= 2
  /\ chars[1] = "\"" /\ chars[Len(chars)] = "\""
  /\ \A i \in 2..(Len(chars) - 1) : chars[i] \notin {"\"", "\\", "\t", "\n"}

JsonArray(items) == [t |-> "array", items |-> items]

JsonObject(keys, values) == [t |-> "object", keys |-> keys, values |-> values]

JsonSyntaxError == [ok |-> FALSE]

JsonParsed(value, next) == [ok |-> TRUE, value |-> value, next |-> next]

(* The first position from p on that holds no white space. *)
RECURSIVE SkipWhiteSpace(_, _)
SkipWhiteSpace(chars, p) ==
  IF p <= Len(chars) /\ chars[p] \in WhiteSpace
  THEN SkipWhiteSpace(chars, p + 1) ELSE p

(* The first position from p on that holds none of the given characters. *)
RECURSIVE SkipWhile(_, _, _)
SkipWhile(chars, p, allowed) ==
  IF p <= Len(chars) /\ chars[p] \in allowed
  THEN SkipWhile(chars, p + 1, allowed) ELSE p

CharAt(chars, p) == IF p <= Len(chars) THEN chars[p] ELSE ""

(* The object with the member name: value set. *)
SetMember(object, name, value) ==
  IF \E i \in 1..Len(object.keys) : object.keys[i] = name
  THEN JsonObject(object.keys,
         [i \in 1..Len(object.keys) |->
            IF object.keys[i] = name THEN value ELSE object.values[i]])
  ELSE JsonObject(Append(object.keys, name), Append(object.values, value))

RECURSIVE JsonValueAt(_, _)
RECURSIVE JsonElements(_, _, _)
RECURSIVE JsonMembers(_, _, _)

(* A number or a string that ends before position q. *)
JsonNumberAt(chars, p, q) ==
  IF IsJsonNumber(SubSeq(chars, p, q - 1))
  THEN JsonParsed(ToNumber(Str(SubSeq(chars, p, q - 1))), q)
  ELSE JsonSyntaxError

(* The string that opens at p and closes at the quote at q. *)
JsonStringAt(chars, p, q) ==
  IF q <= Len(chars) /\ IsJsonString(SubSeq(chars, p, q))
  THEN JsonParsed(Str(SubSeq(chars, p + 1, q - 1)), q + 1)
  ELSE JsonSyntaxError

(* After the element r of an array: a comma and more, or the bracket. *)
JsonAfterElement(chars, items, r) ==
  IF ~ r.ok THEN JsonSyntaxError
  ELSE IF CharAt(chars, SkipWhiteSpace(chars, r.next)) = ","
  THEN JsonElements(chars, SkipWhiteSpace(chars, SkipWhiteSpace(chars, r.next) + 1),
                    Append(items, r.value))
  ELSE IF CharAt(chars, SkipWhiteSpace(chars, r.next)) = "]"
  THEN JsonParsed(JsonArray(Append(items, r.value)), SkipWhiteSpace(chars, r.next) + 1)
  ELSE JsonSyntaxError

JsonElements(chars, p, items) == JsonAfterElement(chars, items, JsonValueAt(chars, p))

(* After the value r of the member name: a comma and more, or the brace. *)
JsonAfterMember(chars, object, name, r) ==
  IF ~ r.ok THEN JsonSyntaxError
  ELSE IF CharAt(chars, SkipWhiteSpace(chars, r.next)) = ","
  THEN JsonMembers(chars, SkipWhiteSpace(chars, SkipWhiteSpace(chars, r.next) + 1),
                   SetMember(object, name, r.value))
  ELSE IF CharAt(chars, SkipWhiteSpace(chars, r.next)) = "}"
  THEN JsonParsed(SetMember(object, name, r.value), SkipWhiteSpace(chars, r.next) + 1)
  ELSE JsonSyntaxError

(* After the name k of a member: the colon and the value. *)
JsonAfterName(chars, object, k) ==
  IF ~ k.ok THEN JsonSyntaxError
  ELSE IF CharAt(chars, SkipWhiteSpace(chars, k.next)) # ":" THEN JsonSyntaxError
  ELSE JsonAfterMember(chars, object, k.value.c,
         JsonValueAt(chars, SkipWhiteSpace(chars, SkipWhiteSpace(chars, k.next) + 1)))

JsonMembers(chars, p, object) ==
  IF CharAt(chars, p) # "\"" THEN JsonSyntaxError
  ELSE JsonAfterName(chars, object,
         JsonStringAt(chars, p, SkipWhile(chars, p + 1, {c \in {chars[i] : i \in 1..Len(chars)} : c # "\""})))

JsonValueAt(chars, p) ==
  CASE MatchesAt(<<"t","r","u","e">>, chars, p - 1) -> JsonParsed(Bool(TRUE), p + 4)
    [] MatchesAt(<<"f","a","l","s","e">>, chars, p - 1) -> JsonParsed(Bool(FALSE), p + 5)
    [] MatchesAt(<<"n","u","l","l">>, chars, p - 1) -> JsonParsed(Null, p + 4)
    [] CharAt(chars, p) = "\"" ->
         JsonStringAt(chars, p,
           SkipWhile(chars, p + 1, {c \in {chars[i] : i \in 1..Len(chars)} : c # "\""}))
    [] CharAt(chars, p) = "[" ->
         IF CharAt(chars, SkipWhiteSpace(chars, p + 1)) = "]"
         THEN JsonParsed(JsonArray(<<>>), SkipWhiteSpace(chars, p + 1) + 1)
         ELSE JsonElements(chars, SkipWhiteSpace(chars, p + 1), <<>>)
    [] CharAt(chars, p) = "{" ->
         IF CharAt(chars, SkipWhiteSpace(chars, p + 1)) = "}"
         THEN JsonParsed(JsonObject(<<>>, <<>>), SkipWhiteSpace(chars, p + 1) + 1)
         ELSE JsonMembers(chars, SkipWhiteSpace(chars, p + 1), JsonObject(<<>>, <<>>))
    [] OTHER ->
         JsonNumberAt(chars, p, SkipWhile(chars, p, {DigitChars[i] : i \in 1..Len(DigitChars)} \cup {"-", "."}))

(* The whole text is one value: nothing but white space follows it. *)
JsonWhole(chars, r) ==
  IF r.ok /\ SkipWhiteSpace(chars, r.next) > Len(chars)
  THEN [ok |-> TRUE, value |-> r.value]
  ELSE [ok |-> FALSE]

JsonParse(v) ==
  JsonWhole(ToStringChars(v),
            JsonValueAt(ToStringChars(v), SkipWhiteSpace(ToStringChars(v), 1)))

----------------------------------------------------------------------------
(* Descriptors (EnvVarConfig) and validation errors                        *)
(*                                                                         *)
(* required is "absent", "true" or "false"; default is a JS value,         *)
(* Undefined when the field is not set; an optional number (minLength,     *)
(* maxLength, min, max) is the empty set or a singleton.                   *)

NoList == [kind |-> "none"]

List(items) == [kind |-> "array", items |-> items]

EnvVarConfig(type) ==
  [type |-> type, required |-> "absent", default |-> Undefined,
   minLength |-> {}, maxLength |-> {}, pattern |-> NoPattern,
   min |-> {}, max |-> {}, integer |-> FALSE,
   protocols |-> NoList, values |-> <<>>]

The(S) == CHOOSE x \in S : TRUE

NoError == [kind |-> "none"]

ValidationError(variable, message, expected, received) ==
  [variable |-> variable, message |-> message,
   expected |-> expected, received |-> received]

Text(n) == Join(IntToChars(n))

(* The result of one call: a returned {value, error} pair, with the        *)
(* descriptor as the call leaves it, or a raised exception.                *)
Returned(value, error, config) ==
  [raised |-> FALSE, value |-> value, error |-> error, config |-> config]

Raised(exception, config) ==
  [raised |-> TRUE, exception |-> exception, config |-> config]

----------------------------------------------------------------------------
(* The type parsers, src/src/core/parser.ts:64-265 *)

(* value.length *)
LengthOf(value) ==
  IF value.t = "string" THEN Len(value.c) ELSE ObjectFunctionLength

(* Mutation: the maxLength check is left out. *)
parseString_NoMaxLength(value, config, variableName) ==
  IF config.minLength # {} /\ LengthOf(value) < The(config.minLength)
  THEN Returned(value,
         ValidationError(variableName,
           "String is too short (minimum: " \o Text(The(config.minLength)) \o " characters)",
           "string with at least " \o Text(The(config.minLength)) \o " characters",
           Str(<<"s","t","r","i","n","g"," ","w","i","t","h"," ">>
               \o IntToChars(LengthOf(value))
               \o <<" ","c","h","a","r","a","c","t","e","r","s">>)),
         config)
  ELSE IF FALSE
  THEN Returned(value,
         ValidationError(variableName,
           "String is too long (maximum: " \o Text(The(config.maxLength)) \o " characters)",
           "string with at most " \o Text(The(config.maxLength)) \o " characters",
           Str(<<"s","t","r","i","n","g"," ","w","i","t","h"," ">>
               \o IntToChars(LengthOf(value))
               \o <<" ","c","h","a","r","a","c","t","e","r","s">>)),
         config)
  ELSE IF config.pattern # NoPattern
  THEN LET test  == RegExpTest(config.pattern, value)
           after == [config EXCEPT !.pattern = test.re]
       IN IF ~ test.matched
          THEN Returned(value,
                 ValidationError(variableName,
                   "String does not match required pattern: " \o RegExpText(test.re),
                   "string matching " \o RegExpText(test.re),
                   value),
                 after)
          ELSE Returned(value, NoError, after)
  ELSE Returned(value, NoError, config)

parseString(value, config, variableName) ==
  IF config.minLength # {} /\ LengthOf(value) < The(config.minLength)
  THEN Returned(value,
         ValidationError(variableName,
           "String is too short (minimum: " \o Text(The(config.minLength)) \o " characters)",
           "string with at least " \o Text(The(config.minLength)) \o " characters",
           Str(<<"s","t","r","i","n","g"," ","w","i","t","h"," ">>
               \o IntToChars(LengthOf(value))
               \o <<" ","c","h","a","r","a","c","t","e","r","s">>)),
         config)
  ELSE IF config.maxLength # {} /\ LengthOf(value) > The(config.maxLength)
  THEN Returned(value,
         ValidationError(variableName,
           "String is too long (maximum: " \o Text(The(config.maxLength)) \o " characters)",
           "string with at most " \o Text(The(config.maxLength)) \o " characters",
           Str(<<"s","t","r","i","n","g"," ","w","i","t","h"," ">>
               \o IntToChars(LengthOf(value))
               \o <<" ","c","h","a","r","a","c","t","e","r","s">>)),
         config)
  ELSE IF config.pattern # NoPattern
  THEN LET test  == RegExpTest(config.pattern, value)
           after == [config EXCEPT !.pattern = test.re]
       IN IF ~ test.matched
          THEN Returned(value,
                 ValidationError(variableName,
                   "String does not match required pattern: " \o RegExpText(test.re),
                   "string matching " \o RegExpText(test.re),
                   value),
                 after)
          ELSE Returned(value, NoError, after)
  ELSE Returned(value, NoError, config)

(* Mutation: the minimum is checked before the integer flag. *)
parseNumber_MinBeforeInteger(value, config, variableName) ==
  LET num == ToNumber(value) IN
    IF IsNaN(num)
    THEN Returned(num,
           ValidationError(variableName, "Invalid number format", "number", value),
           config)
    ELSE IF config.min # {} /\ NumLess(num, The(config.min))
    THEN Returned(num,
           ValidationError(variableName,
             "Number is below minimum value (" \o Text(The(config.min)) \o ")",
             "number >= " \o Text(The(config.min)),
             Str(NumberToChars(num))),
           config)
    ELSE IF config.integer /\ ~ IsInteger(num)
    THEN Returned(num,
           ValidationError(variableName, "Value must be an integer", "integer", value),
           config)
    ELSE IF config.max # {} /\ NumGreater(num, The(config.max))
    THEN Returned(num,
           ValidationError(variableName,
             "Number exceeds maximum value (" \o Text(The(config.max)) \o ")",
             "number <= " \o Text(The(config.max)),
             Str(NumberToChars(num))),
           config)
    ELSE Returned(num, NoError, config)

parseNumber(value, config, variableName) ==
  LET num == ToNumber(value) IN
    IF IsNaN(num)
    THEN Returned(num,
           ValidationError(variableName, "Invalid number format", "number", value),
           config)
    ELSE IF config.integer /\ ~ IsInteger(num)
    THEN Returned(num,
           ValidationError(variableName, "Value must be an integer", "integer", value),
           config)
    ELSE IF config.min # {} /\ NumLess(num, The(config.min))
    THEN Returned(num,
           ValidationError(variableName,
             "Number is below minimum value (" \o Text(The(config.min)) \o ")",
             "number >= " \o Text(The(config.min)),
             Str(NumberToChars(num))),
           config)
    ELSE IF config.max # {} /\ NumGreater(num, The(config.max))
    THEN Returned(num,
           ValidationError(variableName,
             "Number exceeds maximum value (" \o Text(The(config.max)) \o ")",
             "number <= " \o Text(The(config.max)),
             Str(NumberToChars(num))),
           config)
    ELSE Returned(num, NoError, config)

(* Mutation: the raw value is lower-cased but not trimmed. *)
parseBoolean_NoTrim(value, config, variableName) ==
  IF value.t # "string"
  THEN Raised("TypeError: value.toLowerCase is not a function", config)
  ELSE LET lowerValue == Join(ToLowerCase(value.c)) IN
    IF lowerValue = "true" \/ lowerValue = "1" \/ lowerValue = "yes"
    THEN Returned(Bool(TRUE), NoError, config)
    ELSE IF lowerValue = "false" \/ lowerValue = "0" \/ lowerValue = "no"
    THEN Returned(Bool(FALSE), NoError, config)
    ELSE Returned(Bool(FALSE),
           ValidationError(variableName, "Invalid boolean value",
             "true, false, 1, 0, yes, or no", value),
           config)

parseBoolean(value, config, variableName) ==
  IF value.t # "string"
  THEN Raised("TypeError: value.toLowerCase is not a function", config)
  ELSE LET lowerValue == Join(Trim(ToLowerCase(value.c))) IN
    IF lowerValue = "true" \/ lowerValue = "1" \/ lowerValue = "yes"
    THEN Returned(Bool(TRUE), NoError, config)
    ELSE IF lowerValue = "false" \/ lowerValue = "0" \/ lowerValue = "no"
    THEN Returned(Bool(FALSE), NoError, config)
    ELSE Returned(Bool(FALSE),
           ValidationError(variableName, "Invalid boolean value",
             "true, false, 1, 0, yes, or no", value),
           config)

(* Mutation: the allow-list is not consulted. *)
parseUrl_AnyProtocol(value, config, variableName) ==
  LET url == UrlParse(value) IN
    IF ~ url.ok
    THEN Returned(value,
           ValidationError(variableName, "Invalid URL format", "valid URL", value),
           config)
    ELSE Returned(value, NoError, config)

parseUrl(value, config, variableName) ==
  LET url == UrlParse(value) IN
    IF ~ url.ok
    THEN Returned(value,
           ValidationError(variableName, "Invalid URL format", "valid URL", value),
           config)
    ELSE LET scheme == SubSeq(url.protocol, 1, Len(url.protocol) - 1) IN
      IF /\ config.protocols # NoList
         /\ \A i \in 1..Len(config.protocols.items) :
              config.protocols.items[i] # Join(scheme)
      THEN Returned(value,
             ValidationError(variableName, "Invalid URL protocol",
               "URL with protocol: " \o JoinWith(config.protocols.items, ", "),
               Str(scheme)),
             config)
      ELSE Returned(value, NoError, config)

(* Mutation: a well-formed text is returned as the text itself. *)
parseJson_KeepsText(value, config, variableName) ==
  LET parsed == JsonParse(value) IN
    IF parsed.ok THEN Returned(value, NoError, config)
    ELSE Returned(Undefined,
           ValidationError(variableName, "Invalid JSON format", "valid JSON string", value),
           config)

parseJson(value, config, variableName) ==
  LET parsed == JsonParse(value) IN
    IF parsed.ok THEN Returned(parsed.value, NoError, config)
    ELSE Returned(Undefined,
           ValidationError(variableName, "Invalid JSON format", "valid JSON string", value),
           config)

(* Mutation: membership ignores the case of the letters. *)
Includes_IgnoreCase(items, value) ==
  value.t = "string" /\ \E i \in 1..Len(items) :
    items[i] = Join(ToLowerCase(value.c))

(* config.values.includes(value) *)
Includes(items, value) ==
  value.t = "string" /\ \E i \in 1..Len(items) : items[i] = Join(value.c)

parseEnum(value, config, variableName) ==
  IF ~ Includes(config.values, value)
  THEN Returned(value,
         ValidationError(variableName,
           "Value must be one of: " \o JoinWith(config.values, ", "),
           JoinWith(config.values, ", "),
           value),
         config)
  ELSE Returned(value, NoError, config)

----------------------------------------------------------------------------
(* parseValue, src/src/core/parser.ts:6-62 *)

(* Mutation: only undefined counts as missing. *)
IsMissing_UndefinedOnly(rawValue) == rawValue = Undefined

(* Mutation: a blank string counts as missing too. *)
IsMissing_BlankToo(rawValue) ==
  rawValue = Undefined \/ (rawValue.t = "string" /\ Trim(rawValue.c) = <<>>)

(* line 12: rawValue === undefined || rawValue === '' *)
IsMissing(rawValue) == rawValue = Undefined \/ rawValue = Str(<<>>)

(* Mutation: the default is tested for truthiness. *)
HasDefault_Truthy(config) ==
  config.default \notin {Undefined, Null, Num(0, 1), Str(<<>>), Bool(FALSE)}

(* line 13: config.default !== undefined *)
HasDefault(config) == config.default # Undefined

(* Mutation: a variable is required only when the flag is set. *)
IsRequired_OnlyTrue(config) == config.required = "true"

(* line 17: config.required !== false *)
IsRequired(config) == config.required # "false"

MissingRequiredError(config, variableName) ==
  ValidationError(variableName,
    "Required environment variable is missing",
    config.type \o " value",
    Str(<<"u","n","d","e","f","i","n","e","d">>))

(* Mutation: an unrecognized type tag is parsed as a string. *)
parseValue_UnknownAsString(rawValue, config, variableName) ==
  IF IsMissing(rawValue)
  THEN IF HasDefault(config)
       THEN Returned(config.default, NoError, config)
       ELSE IF IsRequired(config)
       THEN Returned(Undefined, MissingRequiredError(config, variableName), config)
       ELSE Returned(Undefined, NoError, config)
  ELSE CASE config.type = "number"  -> parseNumber(rawValue, config, variableName)
         [] config.type = "boolean" -> parseBoolean(rawValue, config, variableName)
         [] config.type = "url"     -> parseUrl(rawValue, config, variableName)
         [] config.type = "json"    -> parseJson(rawValue, config, variableName)
         [] config.type = "enum"    -> parseEnum(rawValue, config, variableName)
         [] OTHER -> parseString(rawValue, config, variableName)

(* Mutation: a default is parsed and checked as a raw value would be. *)
parseValue_ChecksDefault(rawValue, config, variableName) ==
  LET given == IF IsMissing(rawValue) /\ HasDefault(config)
               THEN Str(ToStringChars(config.default))
               ELSE rawValue
  IN IF IsMissing(given)
     THEN IF HasDefault(config)
          THEN Returned(config.default, NoError, config)
          ELSE IF IsRequired(config)
          THEN Returned(Undefined, MissingRequiredError(config, variableName), config)
          ELSE Returned(Undefined, NoError, config)
     ELSE CASE config.type = "string"  -> parseString(given, config, variableName)
            [] config.type = "number"  -> parseNumber(given, config, variableName)
            [] config.type = "boolean" -> parseBoolean(given, config, variableName)
            [] config.type = "url"     -> parseUrl(given, config, variableName)
            [] config.type = "json"    -> parseJson(given, config, variableName)
            [] config.type = "enum"    -> parseEnum(given, config, variableName)
            [] OTHER ->
                 Returned(Undefined,
                   [variable |-> variableName,
                    message |-> "Unknown type: " \o config.type,
                    received |-> given],
                   config)

(* Mutation: the type tag is checked before the raw value is looked at. *)
parseValue_TypeFirst(rawValue, config, variableName) ==
  IF config.type \notin {"string", "number", "boolean", "url", "json", "enum"}
  THEN Returned(Undefined,
         [variable |-> variableName,
          message |-> "Unknown type: " \o config.type,
          received |-> rawValue],
         config)
  ELSE IF IsMissing(rawValue)
  THEN IF HasDefault(config)
       THEN Returned(config.default, NoError, config)
       ELSE IF IsRequired(config)
       THEN Returned(Undefined, MissingRequiredError(config, variableName), config)
       ELSE Returned(Undefined, NoError, config)
  ELSE CASE config.type = "string"  -> parseString(rawValue, config, variableName)
         [] config.type = "number"  -> parseNumber(rawValue, config, variableName)
         [] config.type = "boolean" -> parseBoolean(rawValue, config, variableName)
         [] config.type = "url"     -> parseUrl(rawValue, config, variableName)
         [] config.type = "json"    -> parseJson(rawValue, config, variableName)
         [] config.type = "enum"    -> parseEnum(rawValue, config, variableName)

parseValue(rawValue, config, variableName) ==
  IF IsMissing(rawValue)
  THEN IF HasDefault(config)
       THEN Returned(config.default, NoError, config)
       ELSE IF IsRequired(config)
       THEN Returned(Undefined, MissingRequiredError(config, variableName), config)
       ELSE Returned(Undefined, NoError, config)
  ELSE CASE config.type = "string"  -> parseString(rawValue, config, variableName)
         [] config.type = "number"  -> parseNumber(rawValue, config, variableName)
         [] config.type = "boolean" -> parseBoolean(rawValue, config, variableName)
         [] config.type = "url"     -> parseUrl(rawValue, config, variableName)
         [] config.type = "json"    -> parseJson(rawValue, config, variableName)
         [] config.type = "enum"    -> parseEnum(rawValue, config, variableName)
         [] OTHER ->
              Returned(Undefined,
                [variable |-> variableName,
                 message |-> "Unknown type: " \o config.type,
                 received |-> rawValue],
                config)

----------------------------------------------------------------------------
(* The schema and the raw environment                                      *)
(*                                                                         *)
(* A schema is the sequence of its [key, config, pos] entries as           *)
(* Object.entries enumerates it, pos being the place of the entry in the   *)
(* declaration.  The raw environment is a plain object: a function from    *)
(* its own keys to strings or Undefined.  Reading                          *)
(* env[key] for a key the object does not own falls through to             *)
(* Object.prototype, where "constructor" is the function Object.           *)

KeyOrder == <<"PORT", "DEBUG", "constructor", "EXTRA">>

(* env[key], src/src/core/validator.ts:16 and :50 *)
Lookup(object, key) ==
  IF key \in DOMAIN object THEN object[key]
  ELSE IF key = "constructor" THEN ObjectFunction
  ELSE Undefined

(* Object.keys(env): the own keys, in insertion order *)
ObjectKeys(object) == SelectSeq(KeyOrder, LAMBDA k : k \in DOMAIN object)

(* A key that is an array index, a canonical decimal numeral, and its      *)
(* number.  The keys of the model have one digit at most.                  *)
IsArrayIndex(key) == \E n \in 0..9 : key = Join(NatToChars(n))

IndexValue(key) == CHOOSE n \in 0..9 : key = Join(NatToChars(n))

(* Object.entries(schema), src/src/core/validator.ts:15 and :49, for the   *)
(* schema declared as the sequence of [key, config]: the array-index keys  *)
(* come first, in ascending numeric order, then the other keys in the      *)
(* order of their declaration.  Each entry keeps the position of its       *)
(* declaration as pos.                                                     *)
ObjectEntries(declared) ==
  LET n        == Len(declared)
      indices  == {i \in 1..n : IsArrayIndex(declared[i].key)}
      rank(i)  ==
        IF i \in indices
        THEN Cardinality({j \in indices :
               IndexValue(declared[j].key) <= IndexValue(declared[i].key)})
        ELSE Cardinality(indices) + Cardinality({j \in (1..n) \ indices : j <= i})
  IN [r \in 1..n |->
        LET i == CHOOSE i \in 1..n : rank(i) = r
        IN [key |-> declared[i].key, config |-> declared[i].config, pos |-> i]]

SchemaKeys(sch) == {sch[i].key : i \in 1..Len(sch)}

EmptyObject == [k \in {} |-> Undefined]

----------------------------------------------------------------------------
(* validateEnv, src/src/core/validator.ts:7-37 *)

RECURSIVE ValidateLoop(_, _, _, _)

(* Mutation: the pass stops at the first failing entry. *)
ValidateStep_StopAtFirstError(i, object, sch, errors, r) ==
  IF r.raised
  THEN [raised |-> TRUE, exception |-> r.exception,
        schema |-> [sch EXCEPT ![i].config = r.config]]
  ELSE IF r.error # NoError
  THEN [raised |-> FALSE, errors |-> Append(errors, r.error),
        schema |-> [sch EXCEPT ![i].config = r.config]]
  ELSE ValidateLoop(i + 1, object, [sch EXCEPT ![i].config = r.config], errors)

(* Mutation: a new error is put in front of the earlier ones. *)
ValidateStep_Prepends(i, object, sch, errors, r) ==
  IF r.raised
  THEN [raised |-> TRUE, exception |-> r.exception,
        schema |-> [sch EXCEPT ![i].config = r.config]]
  ELSE ValidateLoop(i + 1, object, [sch EXCEPT ![i].config = r.config],
         IF r.error # NoError THEN <<r.error>> \o errors ELSE errors)

(* lines 17-21: r is what parseValue made of entry i; its error, if any,   *)
(* is pushed and the loop goes on.  An exception leaves the loop.          *)
ValidateStep(i, object, sch, errors, r) ==
  IF r.raised
  THEN [raised |-> TRUE, exception |-> r.exception,
        schema |-> [sch EXCEPT ![i].config = r.config]]
  ELSE ValidateLoop(i + 1, object, [sch EXCEPT ![i].config = r.config],
         IF r.error # NoError THEN Append(errors, r.error) ELSE errors)

(* lines 15-22: one parseValue per schema entry, in the order of           *)
(* Object.entries                                                          *)
ValidateLoop(i, object, sch, errors) ==
  IF i > Len(sch)
  THEN [raised |-> FALSE, errors |-> errors, schema |-> sch]
  ELSE ValidateStep(i, object, sch, errors,
         parseValue(Lookup(object, sch[i].key), sch[i].config, sch[i].key))

WarningText(key) == "Environment variable \"" \o key \o "\" is not defined in schema"

(* Mutation: the value is tested for truthiness. *)
RECURSIVE WarningLoop_Truthy(_, _, _)
WarningLoop_Truthy(keys, object, sch) ==
  IF keys = <<>> THEN <<>>
  ELSE (IF Head(keys) \notin SchemaKeys(sch)
           /\ object[Head(keys)] \notin {Undefined, Str(<<>>)}
        THEN <<WarningText(Head(keys))>> ELSE <<>>)
       \o WarningLoop_Truthy(Tail(keys), object, sch)

(* lines 25-30: one warning per own key outside the schema whose value is  *)
(* not undefined                                                           *)
RECURSIVE WarningLoop(_, _, _)
WarningLoop(keys, object, sch) ==
  IF keys = <<>> THEN <<>>
  ELSE (IF Head(keys) \notin SchemaKeys(sch) /\ object[Head(keys)] # Undefined
        THEN <<WarningText(Head(keys))>> ELSE <<>>)
       \o WarningLoop(Tail(keys), object, sch)

(* Mutation: a warning makes the result invalid. *)
ValidationResult_WarningsInvalidate(pass, warnings) ==
  IF pass.raised THEN pass
  ELSE [raised |-> FALSE,
        valid |-> Len(pass.errors) = 0 /\ Len(warnings) = 0,
        errors |-> pass.errors,
        warnings |-> warnings,
        schema |-> pass.schema]

(* Mutation: a key outside the schema is reported as an error. *)
ValidationResult_UnknownKeysFail(pass, warnings) ==
  IF pass.raised THEN pass
  ELSE [raised |-> FALSE,
        valid |-> Len(pass.errors) + Len(warnings) = 0,
        errors |-> pass.errors \o
                   [i \in 1..Len(warnings) |->
                      [variable |-> "", message |-> warnings[i], received |-> Undefined]],
        warnings |-> warnings,
        schema |-> pass.schema]

(* lines 32-36: the result, unless the pass raised *)
ValidationResult(pass, warnings) ==
  IF pass.raised THEN pass
  ELSE [raised |-> FALSE,
        valid |-> Len(pass.errors) = 0,
        errors |-> pass.errors,
        warnings |-> warnings,
        schema |-> pass.schema]

validateEnv(object, sch) ==
  ValidationResult(ValidateLoop(1, object, sch, <<>>),
                   WarningLoop(ObjectKeys(object), object, sch))

----------------------------------------------------------------------------
(* parseEnv, src/src/core/validator.ts:42-82 *)

(* The cross mark that opens a block is written "x" here. *)
FormatBlock(error) ==
  "  x " \o error.variable \o ": " \o error.message
  \o (IF "expected" \in DOMAIN error /\ error.expected # ""
      THEN "\n    Expected: " \o error.expected ELSE "")
  \o (IF error.received # Undefined
      THEN "\n    Received: " \o Join(ToStringChars(error.received)) ELSE "")

formatValidationErrors(errors) ==
  JoinWith([i \in 1..Len(errors) |-> FormatBlock(errors[i])], "\n\n")

RECURSIVE ParseLoop(_, _, _, _, _)

(* Mutation: a value of undefined is not stored. *)
ParseStep_SkipsUndefined(i, object, sch, result, errors, r) ==
  IF r.raised
  THEN [raised |-> TRUE, exception |-> r.exception,
        schema |-> [sch EXCEPT ![i].config = r.config]]
  ELSE IF r.error # NoError
  THEN ParseLoop(i + 1, object, [sch EXCEPT ![i].config = r.config],
                 result, Append(errors, r.error))
  ELSE ParseLoop(i + 1, object, [sch EXCEPT ![i].config = r.config],
                 IF r.value = Undefined THEN result
                 ELSE (sch[i].key :> r.value) @@ result, errors)

(* lines 51-57: r is what parseValue made of entry i; its error is pushed, *)
(* or else its value is stored under the key.                              *)
ParseStep(i, object, sch, result, errors, r) ==
  IF r.raised
  THEN [raised |-> TRUE, exception |-> r.exception,
        schema |-> [sch EXCEPT ![i].config = r.config]]
  ELSE IF r.error # NoError
  THEN ParseLoop(i + 1, object, [sch EXCEPT ![i].config = r.config],
                 result, Append(errors, r.error))
  ELSE ParseLoop(i + 1, object, [sch EXCEPT ![i].config = r.config],
                 (sch[i].key :> r.value) @@ result, errors)

(* lines 49-58 *)
ParseLoop(i, object, sch, result, errors) ==
  IF i > Len(sch)
  THEN [raised |-> FALSE, result |-> result, errors |-> errors, schema |-> sch]
  ELSE ParseStep(i, object, sch, result, errors,
         parseValue(Lookup(object, sch[i].key), sch[i].config, sch[i].key))

(* Mutation: the entries that parsed are returned despite the errors. *)
ThrowOrReturn_ReturnsPartial(pass) ==
  IF pass.raised THEN pass
  ELSE [raised |-> FALSE, result |-> pass.result, schema |-> pass.schema]

(* lines 60-66: throw when there are errors, else return result *)
ThrowOrReturn(pass) ==
  IF pass.raised THEN pass
  ELSE IF Len(pass.errors) > 0
  THEN [raised |-> TRUE,
        exception |-> "Environment validation failed:\n"
                      \o formatValidationErrors(pass.errors),
        schema |-> pass.schema]
  ELSE [raised |-> FALSE, result |-> pass.result, schema |-> pass.schema]

parseEnv(object, sch) == ThrowOrReturn(ParseLoop(1, object, sch, EmptyObject, <<>>))

----------------------------------------------------------------------------
(* createEnv, src/unnamed/part_004:37-79 *)

(* lines 54-58: the destructuring defaults *)
OrDefault(flag, default) == IF flag = "absent" THEN default ELSE flag = "true"

(* lines 60-78: pass is what parseEnv did.  The check mark of the success  *)
(* line is written "v" here.                                               *)
TryCatch(pass, throwOnError, verbose) ==
  IF ~ pass.raised
  THEN [raised |-> FALSE, result |-> pass.result,
        console |-> IF verbose THEN <<"v Environment validation successful">>
                    ELSE <<>>,
        schema |-> pass.schema]
  ELSE IF throwOnError
  THEN [raised |-> TRUE, exception |-> pass.exception,
        console |-> <<pass.exception>>,
        schema |-> pass.schema]
  ELSE [raised |-> FALSE, result |-> EmptyObject,
        console |-> IF verbose THEN <<pass.exception>> ELSE <<>>,
        schema |-> pass.schema]

createEnv(sch, options) ==
  TryCatch(parseEnv(options.env, sch),
           OrDefault(options.throwOnError, TRUE),
           OrDefault(options.verbose, FALSE))

(* validate, src/unnamed/part_004:99-104 *)
validate(sch, object) == validateEnv(object, sch)

----------------------------------------------------------------------------
(* The validate command of the CLI, src/src/cli/validate.ts:11-112         *)
(*                                                                         *)
(* A console line is [stream, text]; colours are left out and the marks    *)
(* are written "x", "v" and "!".  The file system is three facts: the .env *)
(* file exists, the config file exists, the config module exports a        *)
(* schema.  dotenv.parse gives the raw environment of the .env file, a     *)
(* plain object of strings.  process.exit(1) ends the run with code 1; a   *)
(* run that returns ends with code 0.                                      *)

Log(text) == [stream |-> "log", text |-> text]

Error(text) == [stream |-> "error", text |-> text]

RECURSIVE Flatten(_)
Flatten(seqs) == IF seqs = <<>> THEN <<>> ELSE Head(seqs) \o Flatten(Tail(seqs))

(* lines 82-93: the block of error number index *)
ErrorLines(error, index) ==
  << Log("  " \o Text(index) \o ". " \o error.variable),
     Log("     " \o error.message) >>
  \o (IF "expected" \in DOMAIN error /\ error.expected # ""
      THEN <<Log("     Expected: " \o error.expected)>> ELSE <<>>)
  \o (IF error.received # Undefined
         /\ error.received # Str(<<"u","n","d","e","f","i","n","e","d">>)
      THEN <<Log("     Received: " \o Join(ToStringChars(error.received)))>> ELSE <<>>)
  \o <<Log("")>>

(* lines 105-111 *)
WarningLines(warnings) ==
  IF Len(warnings) > 0
  THEN <<Log("\nWarnings:")>>
       \o [i \in 1..Len(warnings) |-> Log("  ! " \o warnings[i])]
       \o <<Log("")>>
  ELSE <<>>

(* lines 69-112 *)
displayValidationResult(result, verbose) ==
  <<Log("")>>
  \o (IF result.valid
      THEN <<Log("v All environment variables are valid!\n")>>
           \o (IF verbose /\ Len(result.warnings) = 0
               THEN <<Log("No warnings found.")>> ELSE <<>>)
      ELSE <<Log("x Environment validation failed:\n")>>
           \o Flatten([i \in 1..Len(result.errors) |-> ErrorLines(result.errors[i], i)])
           \o <<Log("Suggested fixes for .env:\n")>>
           \o [i \in 1..Len(result.errors) |->
                 Log("  " \o result.errors[i].variable \o "=<your-value-here>")]
           \o <<Log("")>>)
  \o WarningLines(result.warnings)

(* lines 51-62: result is what validate did *)
ReportAndExit(result, verbose) ==
  IF result.raised
  THEN [console |-> <<Error("x Error during validation:"), Error(result.exception)>>,
        exit |-> 1, schema |-> result.schema]
  ELSE [console |-> displayValidationResult(result, verbose),
        exit |-> IF ~ result.valid THEN 1 ELSE 0,
        schema |-> result.schema]

(* lines 11-64 *)
validateCommand(options, files, object, sch) ==
  IF ~ files.env
  THEN [console |-> <<Error("x .env file not found"),
                      Log("\nRun \"npx smart-env init\" to create one")>>,
        exit |-> 1, schema |-> sch]
  ELSE IF ~ files.config
  THEN [console |-> <<Error("x env.config.ts not found"),
                      Log("\nRun \"npx smart-env init\" to create one")>>,
        exit |-> 1, schema |-> sch]
  ELSE IF ~ files.export
  THEN [console |-> <<Error("x Could not find schema in env.config.ts"),
                      Log("\nMake sure to export your schema as default or named \"schema\"")>>,
        exit |-> 1, schema |-> sch]
  ELSE ReportAndExit(validate(sch, object), options.verbose)

----------------------------------------------------------------------------
(* The inputs: descriptors, raw values, schemas and environments *)

MaxSchemaLen == 2

WithCommon(configs, defaults) ==
  {[c EXCEPT !.required = r, !.default = d] :
     c \in configs, r \in {"absent", "true", "false"}, d \in {Undefined} \cup defaults}

StringConfigs ==
  WithCommon(
    {[EnvVarConfig("string") EXCEPT !.minLength = mn, !.maxLength = mx, !.pattern = p] :
       mn \in {{}, {2}}, mx \in {{}, {3}},
       p \in {NoPattern, RegExp(<<"b">>, FALSE), RegExp(<<"b">>, TRUE)}},
    {Str(<<"x", "y">>), Str(<<>>)})

NumberConfigs ==
  WithCommon(
    {[EnvVarConfig("number") EXCEPT !.integer = int, !.min = mn, !.max = mx] :
       int \in BOOLEAN, mn \in {{}, {1}}, mx \in {{}, {10}}},
    {Num(3000, 1), Num(0, 1)})

BooleanConfigs == WithCommon({EnvVarConfig("boolean")}, {Bool(TRUE), Bool(FALSE)})

UrlConfigs ==
  WithCommon(
    {[EnvVarConfig("url") EXCEPT !.protocols = p] : p \in {NoList, List(<<"https">>), List(<<"http", "https">>)}},
    {Str(<<"h","t","t","p",":","/","/","x",".","i","o">>)})

JsonConfigs == WithCommon({EnvVarConfig("json")}, {Null, Str(<<"x">>)})

EnumConfigs ==
  WithCommon({[EnvVarConfig("enum") EXCEPT !.values = <<"dev", "prod">>]},
             {Str(<<"d","e","v">>), Str(<<"s","t","a","g","e">>)})

(* A type tag outside EnvVarType, as an unchecked configuration file may   *)
(* carry it.                                                               *)
UnknownConfigs == WithCommon({EnvVarConfig("date")}, {Str(<<"x">>)})

AllConfigs ==
  StringConfigs \cup NumberConfigs \cup BooleanConfigs \cup UrlConfigs
  \cup JsonConfigs \cup EnumConfigs \cup UnknownConfigs

RawStrings ==
  { Str(<<>>), Str(<<" ">>),
    Str(<<"b">>), Str(<<"1","b">>), Str(<<"a","b","c">>), Str(<<"a","b","c","b">>), Str(<<"x","y","z","w">>),
    Str(<<"0">>), Str(<<"1">>), Str(<<"1","0">>), Str(<<"1","1">>), Str(<<"-","1">>),
    Str(<<"3",".","5">>), Str(<<"0",".","5">>), Str(<<" ","7"," ">>),
    Str(<<"t","r","u","e">>), Str(<<" ","Y","E","S">>), Str(<<"n","o">>),
    Str(<<"d","e","v">>), Str(<<"D","e","v">>),
    Str(<<"h","t","t","p","s",":","/","/","a",".","c","o">>),
    Str(<<"F","T","P",":","/","/","a",".","c","o">>),
    Str(<<"h","t","t","p",":","/","/">>),
    Str(<<"n","u","l","l">>), Str(<<"\"","h","i","\"">>), Str(<<"{","}">>),
    Str(<<"{","\"","a","\"",":","[","1","]","}">>), Str(<<"[","1",",","]">>) }

CoreConfigs ==
  { [EnvVarConfig("number") EXCEPT !.min = {1}],
    [EnvVarConfig("boolean") EXCEPT !.required = "false"],
    [EnvVarConfig("string") EXCEPT !.pattern = RegExp(<<"b">>, TRUE),
                                   !.default = Str(<<"x", "y">>)] }

CoreRaw == {Str(<<>>), Str(<<"1">>), Str(<<"a","b","c">>)}

DeclarableKeys == {"PORT", "DEBUG", "constructor"}

(* The schemas as their object literals declare them: sequences of         *)
(* [key, config] with distinct keys.  Those of the second set declare the  *)
(* array-index key "1" next to PORT.                                       *)
DeclaredSchemas ==
  UNION { {s \in [1..n -> [key : DeclarableKeys, config : CoreConfigs]] :
             \A i, j \in 1..n : i # j => s[i].key # s[j].key} :
          n \in 1..MaxSchemaLen }
  \cup {s \in [1..2 -> [key : {"PORT", "1"}, config : CoreConfigs]] :
          s[1].key # s[2].key}

Schemas == {ObjectEntries(s) : s \in DeclaredSchemas}

Environments ==
  UNION { {e \in [D -> CoreRaw \cup {Undefined, Str(<<"x">>)}] :
             /\ "PORT" \in D => e["PORT"] \in CoreRaw
             /\ "DEBUG" \in D => e["DEBUG"] \in {Str(<<>>), Str(<<"a","b","c">>)}
             /\ "EXTRA" \in D => e["EXTRA"] \in {Undefined, Str(<<"x">>)}} :
          D \in {{"EXTRA"} \cup K : K \in SUBSET {"PORT", "DEBUG"}} }

(* The throwOnError and verbose options of a createEnv call, each "true",  *)
(* "false" or left out.                                                    *)
CreateEnvFlags ==
  { [throwOnError |-> "absent", verbose |-> "absent"],
    [throwOnError |-> "true",   verbose |-> "absent"],
    [throwOnError |-> "false",  verbose |-> "true"] }

(* The runs of the validate command: what exists on disk and the verbose   *)
(* option.                                                                 *)
CommandRuns ==
  { [env |-> FALSE, config |-> TRUE,  export |-> TRUE,  verbose |-> FALSE],
    [env |-> TRUE,  config |-> FALSE, export |-> TRUE,  verbose |-> FALSE],
    [env |-> TRUE,  config |-> TRUE,  export |-> FALSE, verbose |-> FALSE],
    [env |-> TRUE,  config |-> TRUE,  export |-> TRUE,  verbose |-> FALSE],
    [env |-> TRUE,  config |-> TRUE,  export |-> TRUE,  verbose |-> TRUE] }

----------------------------------------------------------------------------
(* The caller: a schema and an environment, and calls of the entry points  *)
(* on them.  last records the latest call and what it returned.            *)

NoCall == [op |-> "none"]

Init ==
  /\ \/ /\ schema \in {ObjectEntries(<<[key |-> "PORT", config |-> c]>>) : c \in AllConfigs}
        /\ env \in {EmptyObject} \cup {("PORT" :> v) : v \in RawStrings \cup {Undefined}}
     \/ /\ schema \in Schemas
        /\ env \in Environments
  /\ last = NoCall

(* What the caller sees of a call: the returned fields or the exception. *)
Outcome(r) ==
  IF r.raised
  THEN [x \in (DOMAIN r) \cap {"raised", "exception", "console"} |-> r[x]]
  ELSE [x \in (DOMAIN r) \ {"schema", "config"} |-> r[x]]

(* parseValue(env[key], schema[key], key) *)
ParseValueCall(i) ==
  LET r == parseValue(Lookup(env, schema[i].key), schema[i].config, schema[i].key)
  IN /\ schema' = [schema EXCEPT ![i].config = r.config]
     /\ last' = [op |-> "parseValue", index |-> i,
                 rawValue |-> Lookup(env, schema[i].key), out |-> Outcome(r)]
     /\ UNCHANGED env

ValidateEnvCall ==
  LET r == validateEnv(env, schema)
  IN /\ schema' = r.schema
     /\ last' = [op |-> "validateEnv", out |-> Outcome(r)]
     /\ UNCHANGED env

ParseEnvCall ==
  LET r == parseEnv(env, schema)
  IN /\ schema' = r.schema
     /\ last' = [op |-> "parseEnv", out |-> Outcome(r)]
     /\ UNCHANGED env

(* createEnv(schema, {env, throwOnError, verbose}) *)
CreateEnvCall(flags) ==
  LET r == createEnv(schema, [env |-> env, throwOnError |-> flags.throwOnError,
                              verbose |-> flags.verbose])
  IN /\ schema' = r.schema
     /\ last' = [op |-> "createEnv", throwOnError |-> flags.throwOnError,
                 verbose |-> flags.verbose, out |-> Outcome(r)]
     /\ UNCHANGED env

(* smart-env validate, with env the content of the .env file.  The command *)
(* is a process of its own: it imports the config module and calls         *)
(* validate once, on the schema as the module built it.                    *)
ValidateCommandCall(run) ==
  LET r == validateCommand([verbose |-> run.verbose], run, env, schema)
  IN /\ last = NoCall
     /\ \A k \in DOMAIN env : env[k].t = "string"
     /\ schema' = r.schema
     /\ last' = [op |-> "validateCommand", run |-> run,
                 console |-> r.console, exit |-> r.exit]
     /\ UNCHANGED env

(* The process of the command has ended, by process.exit(1) or by the      *)
(* return of validateCommand to the bin script, src/unnamed/part_005:24-34 *)
Exited == last.op = "validateCommand"

Next ==
  \/ ~ Exited /\ \E i \in 1..Len(schema) : ParseValueCall(i)
  \/ ~ Exited /\ ValidateEnvCall
  \/ ~ Exited /\ ParseEnvCall
  \/ ~ Exited /\ \E flags \in CreateEnvFlags : CreateEnvCall(flags)
  \/ \E run \in CommandRuns : ValidateCommandCall(run)

Spec == Init /\ [][Next]_vars

----------------------------------------------------------------------------
(* Properties *)

(* A step that is a call of validateEnv, and one that is a call of         *)
(* parseEnv.                                                               *)
ValidateEnvStep == last'.op = "validateEnv" /\ ValidateEnvCall

ParseEnvStep == last'.op = "parseEnv" /\ ParseEnvCall

(* The descriptor and the name of the latest parseValue call. *)
LastConfig == schema[last.index].config

LastKey == schema[last.index].key

AbsentOrEmpty(v) == v = Undefined \/ (v.t = "string" /\ Len(v.c) = 0)

MissingCall == last.op = "parseValue" /\ AbsentOrEmpty(last.rawValue)

(* What parseValue makes of entry i of the schema in the current state. *)
ParseOf(i) == parseValue(Lookup(env, schema[i].key), schema[i].config, schema[i].key)

Failed(r) == r.raised \/ r.error # NoError

KeyFails(i) == Failed(ParseOf(i))

FailingKeys == {i \in 1..Len(schema) : KeyFails(i)}

Count(seq, P(_)) == Cardinality({i \in 1..Len(seq) : P(seq[i])})

(* C1: for every descriptor whose default is defined, parseValue on an     *)
(* absent or empty raw value returns exactly that default and no error,    *)
(* whatever the type and the required flag.                                *)
C1_DefaultOnMissing ==
  (MissingCall /\ LastConfig.default # Undefined)
    => /\ ~ last.out.raised
       /\ last.out.value = LastConfig.default
       /\ last.out.error = NoError

C1_Witness ==
  /\ MissingCall /\ last.rawValue = Str(<<>>)
  /\ LastConfig.required = "true"
  /\ LastConfig.default = Num(0, 1)
  /\ last.out.value = Num(0, 1)

(* C2: for every descriptor with no default and required absent or true,   *)
(* parseValue on an absent or empty raw value returns no value and the     *)
(* error "Required environment variable is missing" for that variable,     *)
(* with expected "<type> value" and received "undefined".                  *)
C2_MissingRequired ==
  (MissingCall /\ LastConfig.default = Undefined /\ LastConfig.required \in {"absent", "true"})
    => /\ ~ last.out.raised
       /\ last.out.value = Undefined
       /\ last.out.error =
            [variable |-> LastKey,
             message  |-> "Required environment variable is missing",
             expected |-> LastConfig.type \o " value",
             received |-> Str(<<"u","n","d","e","f","i","n","e","d">>)]

C2_Witness ==
  /\ MissingCall /\ last.rawValue = Undefined
  /\ LastConfig.default = Undefined /\ LastConfig.required = "absent"
  /\ LastConfig.type = "url"
  /\ last.out.error # NoError /\ last.out.error.expected = "url value"

(* C3: for every descriptor with required false and no default, parseValue *)
(* on an absent or empty raw value returns no value and no error.          *)
C3_OptionalMissing ==
  (MissingCall /\ LastConfig.default = Undefined /\ LastConfig.required = "false")
    => /\ ~ last.out.raised
       /\ last.out.value = Undefined
       /\ last.out.error = NoError

C3_Witness ==
  /\ MissingCall /\ last.rawValue = Str(<<>>)
  /\ LastConfig.default = Undefined /\ LastConfig.required = "false"
  /\ LastConfig.type = "string"
  /\ last.out.value = Undefined /\ last.out.error = NoError

(* C4: parseEnv raises if and only if at least one schema key fails its    *)
(* parse; when it raises no typed object reaches the caller, and when no   *)
(* key fails it returns the typed object.                                  *)
C4_ParseEnvRaisesIffFails ==
  [][ParseEnvStep =>
       /\ last'.out.raised <=> (FailingKeys # {})
       /\ last'.out.raised <=> ("result" \notin DOMAIN last'.out)]_vars

C4_Witness ==
  /\ last.op = "parseEnv" /\ last.out.raised
  /\ "result" \notin DOMAIN last.out
  /\ \E i, j \in 1..Len(schema) :
       /\ schema[i].config.type = "number" /\ KeyFails(i)
       /\ schema[j].config.type = "boolean" /\ ~ KeyFails(j)

(* C5: parseValue never raises, and validateEnv never raises: every call   *)
(* returns its result.                                                     *)
C5_NeverRaises ==
  last.op \in {"parseValue", "validateEnv"} => ~ last.out.raised

(* C6: in every result validateEnv returns, valid is true if and only if   *)
(* errors is empty, whatever the warnings are.                             *)
C6_ValidIffNoErrors ==
  (last.op = "validateEnv" /\ ~ last.out.raised)
    => (last.out.valid <=> (last.out.errors = <<>>))

C6_Witness ==
  /\ last.op = "validateEnv" /\ ~ last.out.raised
  /\ last.out.valid /\ last.out.errors = <<>> /\ Len(last.out.warnings) >= 2

(* C7: the errors validateEnv returns hold exactly one error for each      *)
(* schema key whose parse fails, carrying that key as its variable, and    *)
(* none for a key whose parse succeeds; their number is the number of      *)
(* failing keys.                                                           *)
C7_OneErrorPerFailingKey ==
  [][(ValidateEnvStep /\ ~ last'.out.raised) =>
       /\ \A i \in 1..Len(schema) :
            Count(last'.out.errors, LAMBDA e : e.variable = schema[i].key)
              = IF KeyFails(i) THEN 1 ELSE 0
       /\ Len(last'.out.errors) = Cardinality(FailingKeys)]_vars

C7_Witness ==
  /\ last.op = "validateEnv" /\ ~ last.out.raised
  /\ Len(schema) = 2 /\ Len(last.out.errors) = 2
  /\ last.out.errors[1].variable = schema[1].key
  /\ last.out.errors[2].variable = schema[2].key

(* C8: the warnings validateEnv returns hold exactly one warning,          *)
(* Environment variable "<key>" is not defined in schema, for each key of  *)
(* the raw environment whose value is defined (the empty string included)  *)
(* and that is not a schema key, and nothing else.                         *)
Unschemad ==
  {k \in DOMAIN env : env[k] # Undefined /\ \A i \in 1..Len(schema) : schema[i].key # k}

C8_WarningsForUnschemadKeys ==
  (last.op = "validateEnv" /\ ~ last.out.raised)
    => /\ \A k \in {"PORT", "DEBUG", "constructor", "EXTRA"} :
            Count(last.out.warnings,
                  LAMBDA w : w = "Environment variable \"" \o k \o "\" is not defined in schema")
              = IF k \in Unschemad THEN 1 ELSE 0
       /\ Len(last.out.warnings) = Cardinality(Unschemad)

C8_Witness ==
  /\ last.op = "validateEnv" /\ ~ last.out.raised
  /\ "DEBUG" \in Unschemad /\ env["DEBUG"] = Str(<<>>)
  /\ "EXTRA" \in DOMAIN env /\ env["EXTRA"] = Undefined
  /\ "PORT" \in DOMAIN env /\ \E i \in 1..Len(schema) : schema[i].key = "PORT"
  /\ last.out.warnings = <<"Environment variable \"DEBUG\" is not defined in schema">>

(* C9: keys of the raw environment outside the schema never influence the  *)
(* outcome: for an environment that agrees with the given one on every     *)
(* schema key, validateEnv returns the same errors and the same valid      *)
(* flag, and parseEnv raises for both or returns the same typed mapping.   *)
AgreesOnSchema(other) ==
  \A i \in 1..Len(schema) : Lookup(other, schema[i].key) = Lookup(env, schema[i].key)

SameVerdict(a, b) ==
  /\ a.raised = b.raised
  /\ ~ a.raised => (a.errors = b.errors /\ a.valid = b.valid)

SameTyped(a, b) ==
  /\ a.raised = b.raised
  /\ ~ a.raised => a.result = b.result

C9_UnschemadKeysDoNotInfluence ==
  [][/\ ValidateEnvStep =>
          \A other \in Environments :
            AgreesOnSchema(other) => SameVerdict(validateEnv(other, schema), last'.out)
     /\ ParseEnvStep =>
          \A other \in Environments :
            AgreesOnSchema(other) => SameTyped(parseEnv(other, schema), last'.out)]_vars

C9_Witness ==
  /\ last.op = "validateEnv" /\ ~ last.out.raised
  /\ last.out.errors # <<>> /\ last.out.warnings # <<>>
  /\ \E other \in Environments :
       /\ AgreesOnSchema(other)
       /\ DOMAIN other # DOMAIN env
       /\ validateEnv(other, schema).warnings = <<>>

(* C10: parsing the same raw value against the same descriptor twice in    *)
(* succession yields the same value and the same error both times.         *)
C10_SameResultTwice ==
  [][(last.op = "parseValue" /\ last'.op = "parseValue" /\ last'.index = last.index)
       => last'.out = last.out]_vars

(* An optional entry (required false, no default) whose raw value is       *)
(* absent or empty.                                                        *)
OptionalUnsupplied(i) ==
  /\ schema[i].config.required = "false"
  /\ schema[i].config.default = Undefined
  /\ AbsentOrEmpty(Lookup(env, schema[i].key))

(* C11, as stated: when parseEnv succeeds, an optional schema key with no  *)
(* supplied value and no default is not a key of the returned mapping at   *)
(* all, and every other schema key is present with its coerced value.      *)
C11_OptionalKeyAbsent ==
  [][(ParseEnvStep /\ ~ last'.out.raised) =>
       \A i \in 1..Len(schema) :
         IF OptionalUnsupplied(i)
         THEN schema[i].key \notin DOMAIN last'.out.result
         ELSE /\ schema[i].key \in DOMAIN last'.out.result
              /\ last'.out.result[schema[i].key] = ParseOf(i).value]_vars

(* C11, amended: when parseEnv succeeds, an optional schema key with no    *)
(* supplied value and no default is a key of the returned mapping whose    *)
(* value is undefined, and every other schema key is present with its      *)
(* coerced value; the keys of the mapping are exactly the schema keys.     *)
C11_OptionalKeyUndefined ==
  [][(ParseEnvStep /\ ~ last'.out.raised) =>
       /\ DOMAIN last'.out.result = SchemaKeys(schema)
       /\ \A i \in 1..Len(schema) :
            last'.out.result[schema[i].key] =
              IF OptionalUnsupplied(i) THEN Undefined ELSE ParseOf(i).value]_vars

C11_Witness ==
  /\ last.op = "parseEnv" /\ ~ last.out.raised
  /\ \E i, j \in 1..Len(schema) :
       /\ OptionalUnsupplied(i)
       /\ last.out.result[schema[i].key] = Undefined
       /\ ~ OptionalUnsupplied(j)
       /\ last.out.result[schema[j].key] # Undefined

(* What parseValue returns for the latest call's descriptor and name when  *)
(* the raw value is absent.                                                *)
AbsentOutcome == Outcome(parseValue(Undefined, LastConfig, LastKey))

EmptyCall == last.op = "parseValue" /\ last.rawValue = Str(<<>>)

(* C12, as stated: for every descriptor and variable name parseValue on "" *)
(* returns the same value and the same error (received "undefined"         *)
(* included) as parseValue on an absent value, and a string-typed field    *)
(* never receives "" as its parsed value.                                  *)
C12_EmptySameAsAbsent ==
  EmptyCall
    => /\ last.out = AbsentOutcome
       /\ LastConfig.type = "string" => last.out.value # Str(<<>>)

(* C12, amended: for every descriptor and variable name parseValue on ""   *)
(* returns the same value and the same error (received "undefined"         *)
(* included) as parseValue on an absent value; a string-typed field        *)
(* receives "" only when "" is the descriptor's default, never because the *)
(* raw value was "".                                                       *)
C12_EmptySameAsAbsentOrDefault ==
  EmptyCall
    => /\ last.out = AbsentOutcome
       /\ last.out.error # NoError
            => last.out.error.received = Str(<<"u","n","d","e","f","i","n","e","d">>)
       /\ (LastConfig.type = "string" /\ last.out.value = Str(<<>>))
            => LastConfig.default = Str(<<>>)

C12_Witness ==
  /\ EmptyCall
  /\ LastConfig.type = "string" /\ LastConfig.default = Undefined
  /\ LastConfig.minLength = {} /\ LastConfig.required = "absent"
  /\ last.out.value = Undefined
  /\ last.out.error # NoError
  /\ last.out = AbsentOutcome

CreateEnvStep ==
  last'.op = "createEnv" /\ \E flags \in CreateEnvFlags : CreateEnvCall(flags)

(* The errors of the failing entries, in the order of the schema. *)
CollectedErrors ==
  LET failing == SelectSeq([i \in 1..Len(schema) |-> i],
                           LAMBDA i : ~ ParseOf(i).raised /\ ParseOf(i).error # NoError)
  IN [n \in 1..Len(failing) |-> ParseOf(failing[n]).error]

(* C13: with throwOnError true or omitted, createEnv raises on a           *)
(* validation failure and the error carries "Environment validation        *)
(* failed"; with throwOnError false it never raises and on a validation    *)
(* failure returns the empty object; when no schema key fails it returns   *)
(* exactly the mapping parseEnv returns.                                   *)
C13_CreateEnvPolicy ==
  [][CreateEnvStep =>
       /\ (last'.throwOnError # "false" /\ FailingKeys # {})
            => /\ last'.out.raised
               /\ last'.out.exception = "Environment validation failed:\n"
                                        \o formatValidationErrors(CollectedErrors)
       /\ last'.throwOnError = "false"
            => /\ ~ last'.out.raised
               /\ FailingKeys # {} => last'.out.result = EmptyObject
       /\ FailingKeys = {}
            => /\ ~ last'.out.raised
               /\ last'.out.result = parseEnv(env, schema).result]_vars

(* The latest call was parseValue on a non-empty raw string against a      *)
(* descriptor of the given type.                                           *)
TypedCall(type) ==
  /\ last.op = "parseValue"
  /\ last.rawValue.t = "string" /\ Len(last.rawValue.c) > 0
  /\ LastConfig.type = type

(* v >= bound and v <= bound for a number v = n/d and an integer bound *)
AtLeast(v, bound) == v.n >= bound * v.d

AtMost(v, bound) == v.n <= bound * v.d

(* The latest call parsed its raw string to a number that passes the       *)
(* integer check, so that the range checks decide.                         *)
RangeCall ==
  /\ TypedCall("number")
  /\ last.out.value.t = "number"
  /\ LastConfig.integer => last.out.value.d = 1

(* C14: min and max are inclusive bounds.  A raw value that parses to a    *)
(* number v passes the range checks iff min <= v <= max, for whichever     *)
(* bound is set: v = min and v = max give no error, a v below min gives    *)
(* the below-minimum error and a v above max the exceeds-maximum error.    *)
C14_InclusiveBounds ==
  RangeCall =>
    LET v  == last.out.value
        lo == LastConfig.min
        hi == LastConfig.max
    IN /\ (last.out.error = NoError)
            <=> /\ lo # {} => AtLeast(v, The(lo))
                /\ hi # {} => AtMost(v, The(hi))
       /\ (lo # {} /\ ~ AtLeast(v, The(lo)))
            => /\ last.out.error # NoError
               /\ last.out.error.message =
                    "Number is below minimum value (" \o Text(The(lo)) \o ")"
               /\ last.out.error.expected = "number >= " \o Text(The(lo))
       /\ (hi # {} /\ ~ AtMost(v, The(hi)) /\ (lo # {} => AtLeast(v, The(lo))))
            => /\ last.out.error # NoError
               /\ last.out.error.message =
                    "Number exceeds maximum value (" \o Text(The(hi)) \o ")"
               /\ last.out.error.expected = "number <= " \o Text(The(hi))

C14_Witness ==
  /\ RangeCall
  /\ LastConfig.min = {1} /\ LastConfig.max = {10}
  /\ last.rawValue = Str(<<"1", "0">>)
  /\ last.out.value = Num(10, 1)
  /\ last.out.error = NoError

(* C15: for an enum descriptor and a non-empty raw string there is no      *)
(* error iff the raw string equals, case-sensitively, an element of        *)
(* values; otherwise the error has the message "Value must be one of: "    *)
(* followed by the comma-joined values, expected the same joined list and  *)
(* received the raw string.  The value is the raw string in both cases.    *)
C15_EnumMembership ==
  TypedCall("enum") =>
    LET allowed == LastConfig.values
        member  == \E i \in 1..Len(allowed) : allowed[i] = Join(last.rawValue.c)
    IN /\ ~ last.out.raised
       /\ last.out.value = last.rawValue
       /\ member => last.out.error = NoError
       /\ ~ member =>
            last.out.error =
              [variable |-> LastKey,
               message  |-> "Value must be one of: " \o JoinWith(allowed, ", "),
               expected |-> JoinWith(allowed, ", "),
               received |-> last.rawValue]

C15_Witness ==
  /\ TypedCall("enum")
  /\ LastConfig.values = <<"dev", "prod">>
  /\ last.rawValue = Str(<<"D", "e", "v">>)
  /\ last.out.value = Str(<<"D", "e", "v">>)
  /\ last.out.error # NoError
  /\ last.out.error.message = "Value must be one of: dev, prod"
  /\ last.out.error.expected = "dev, prod"

(* C16: for a boolean descriptor a non-empty raw string is trimmed and     *)
(* lower-cased; "true", "1" and "yes" give true, "false", "0" and "no"     *)
(* give false, both without error; anything else gives the value false     *)
(* with the error "Invalid boolean value", expected "true, false, 1, 0,    *)
(* yes, or no" and received the original, untrimmed raw string.            *)
C16_BooleanWords ==
  TypedCall("boolean") =>
    LET word == Join(Trim(ToLowerCase(last.rawValue.c)))
    IN /\ ~ last.out.raised
       /\ word \in {"true", "1", "yes"}
            => (last.out.value = Bool(TRUE) /\ last.out.error = NoError)
       /\ word \in {"false", "0", "no"}
            => (last.out.value = Bool(FALSE) /\ last.out.error = NoError)
       /\ word \notin {"true", "1", "yes", "false", "0", "no"}
            => /\ last.out.value = Bool(FALSE)
               /\ last.out.error =
                    [variable |-> LastKey,
                     message  |-> "Invalid boolean value",
                     expected |-> "true, false, 1, 0, yes, or no",
                     received |-> last.rawValue]

C16_Witness ==
  /\ TypedCall("boolean")
  /\ last.rawValue = Str(<<" ", "Y", "E", "S">>)
  /\ last.out.value = Bool(TRUE)
  /\ last.out.error = NoError

(* The scheme new URL(raw) reports, without its colon. *)
SchemeOf(raw) == SubSeq(UrlParse(raw).protocol, 1, Len(UrlParse(raw).protocol) - 1)

Allowed(scheme, protocols) ==
  \E i \in 1..Len(protocols.items) : protocols.items[i] = Join(scheme)

(* C17, as stated: for a url descriptor and a non-empty raw string, a      *)
(* string that does not parse as an absolute URL gives the invalid-URL     *)
(* error; one that parses, with protocols set and its lower-cased scheme   *)
(* not among them, gives the error "Invalid URL protocol" with expected    *)
(* equal to the joined allow-list and received the scheme; otherwise there *)
(* is no error.  The value is always the original raw string.              *)
C17_UrlProtocolExpectedList ==
  TypedCall("url") =>
    /\ ~ last.out.raised
    /\ last.out.value = last.rawValue
    /\ last.out.error =
         IF ~ UrlParse(last.rawValue).ok
         THEN [variable |-> LastKey, message |-> "Invalid URL format",
               expected |-> "valid URL", received |-> last.rawValue]
         ELSE IF /\ LastConfig.protocols # NoList
                 /\ ~ Allowed(SchemeOf(last.rawValue), LastConfig.protocols)
         THEN [variable |-> LastKey, message |-> "Invalid URL protocol",
               expected |-> JoinWith(LastConfig.protocols.items, ", "),
               received |-> Str(SchemeOf(last.rawValue))]
         ELSE NoError

(* C17, amended: the same, except that expected of the "Invalid URL        *)
(* protocol" error is "URL with protocol: " followed by the joined         *)
(* allow-list.                                                             *)
C17_UrlProtocolExpectedPrefixed ==
  TypedCall("url") =>
    /\ ~ last.out.raised
    /\ last.out.value = last.rawValue
    /\ last.out.error =
         IF ~ UrlParse(last.rawValue).ok
         THEN [variable |-> LastKey, message |-> "Invalid URL format",
               expected |-> "valid URL", received |-> last.rawValue]
         ELSE IF /\ LastConfig.protocols # NoList
                 /\ ~ Allowed(SchemeOf(last.rawValue), LastConfig.protocols)
         THEN [variable |-> LastKey, message |-> "Invalid URL protocol",
               expected |-> "URL with protocol: "
                            \o JoinWith(LastConfig.protocols.items, ", "),
               received |-> Str(SchemeOf(last.rawValue))]
         ELSE NoError

C17_Witness ==
  /\ TypedCall("url")
  /\ LastConfig.protocols = List(<<"http", "https">>)
  /\ last.rawValue = Str(<<"F","T","P",":","/","/","a",".","c","o">>)
  /\ last.out.value = last.rawValue
  /\ last.out.error # NoError
  /\ last.out.error.message = "Invalid URL protocol"
  /\ last.out.error.expected = "URL with protocol: http, https"
  /\ last.out.error.received = Str(<<"f", "t", "p">>)

(* One block of the failure message as the claim describes it: the         *)
(* variable and the message, an Expected line iff the error has an         *)
(* expected field and a Received line iff it has a received field.  The    *)
(* cross mark is written "x".                                              *)
ClaimedBlock(error) ==
  "  x " \o error.variable \o ": " \o error.message
  \o (IF "expected" \in DOMAIN error
      THEN "\n    Expected: " \o error.expected ELSE "")
  \o (IF "received" \in DOMAIN error
      THEN "\n    Received: " \o Join(ToStringChars(error.received)) ELSE "")

(* C18: when parseEnv fails, the message of the raised failure is          *)
(* "Environment validation failed:" followed by one block per error, in    *)
(* the order the errors were collected, the blocks separated by a blank    *)
(* line.                                                                   *)
C18_FailureMessage ==
  [][(ParseEnvStep /\ last'.out.raised) =>
       last'.out.exception =
         "Environment validation failed:\n"
         \o JoinWith([n \in 1..Len(CollectedErrors) |-> ClaimedBlock(CollectedErrors[n])],
                     "\n\n")]_vars

(* The place in the declaration of the schema key an error names. *)
DeclaredAt(error) ==
  schema[CHOOSE i \in 1..Len(schema) : schema[i].key = error.variable].pos

(* C19: the errors validateEnv returns follow the order in which the       *)
(* schema declares its keys: when key A is declared before key B and both  *)
(* fail, the error of A precedes the error of B.                           *)
C19_DeclarationOrder ==
  (last.op = "validateEnv" /\ ~ last.out.raised)
    => \A a, b \in 1..Len(last.out.errors) :
         a < b => DeclaredAt(last.out.errors[a]) < DeclaredAt(last.out.errors[b])

(* Key a is enumerated before key b: array-index keys first, by their      *)
(* number, then the other keys as declared (at places p and q).            *)
EnumeratedBefore(a, p, b, q) ==
  IF IsArrayIndex(a)
  THEN IsArrayIndex(b) => IndexValue(a) < IndexValue(b)
  ELSE ~ IsArrayIndex(b) /\ p < q

(* C19, amended: the errors validateEnv returns follow the order in which  *)
(* the schema's keys are enumerated: declaration order for keys that are   *)
(* not array indices, with the array-index keys ahead of them in ascending *)
(* numeric order; the blocks of parseEnv's failure message are the errors  *)
(* of validateEnv in the same order.                                       *)
C19_EnumerationOrder ==
  [][/\ (ValidateEnvStep /\ ~ last'.out.raised) =>
          \A a, b \in 1..Len(last'.out.errors) :
            a < b => EnumeratedBefore(last'.out.errors[a].variable,
                                      DeclaredAt(last'.out.errors[a]),
                                      last'.out.errors[b].variable,
                                      DeclaredAt(last'.out.errors[b]))
     /\ (ParseEnvStep /\ last'.out.raised /\ ~ validateEnv(env, schema).raised) =>
          last'.out.exception =
            "Environment validation failed:\n"
            \o formatValidationErrors(validateEnv(env, schema).errors)]_vars

C19_Witness ==
  /\ last.op = "validateEnv" /\ ~ last.out.raised
  /\ Len(last.out.errors) = 2
  /\ last.out.errors[1].variable = "1" /\ DeclaredAt(last.out.errors[1]) = 2
  /\ last.out.errors[2].variable = "PORT" /\ DeclaredAt(last.out.errors[2]) = 1

(* C20: for a number descriptor and a non-empty raw string, a string that  *)
(* is not a valid number as a whole gives the value NaN and the error      *)
(* "Invalid number format" with expected "number" and received the raw     *)
(* string, and no constraint is reported; otherwise the checks run in the  *)
(* order integer, minimum, maximum and the first that fails is the one     *)
(* reported.                                                               *)
C20_NumberCheckOrder ==
  TypedCall("number") =>
    LET v == ToNumber(last.rawValue)
    IN /\ ~ last.out.raised
       /\ last.out.value = v
       /\ IF v = NaN
          THEN last.out.error =
                 [variable |-> LastKey, message |-> "Invalid number format",
                  expected |-> "number", received |-> last.rawValue]
          ELSE IF LastConfig.integer /\ v.d # 1
          THEN last.out.error =
                 [variable |-> LastKey, message |-> "Value must be an integer",
                  expected |-> "integer", received |-> last.rawValue]
          ELSE IF LastConfig.min # {} /\ ~ AtLeast(v, The(LastConfig.min))
          THEN /\ last.out.error # NoError
               /\ last.out.error.expected = "number >= " \o Text(The(LastConfig.min))
          ELSE IF LastConfig.max # {} /\ ~ AtMost(v, The(LastConfig.max))
          THEN /\ last.out.error # NoError
               /\ last.out.error.expected = "number <= " \o Text(The(LastConfig.max))
          ELSE last.out.error = NoError

C20_Witness ==
  /\ TypedCall("number")
  /\ last.rawValue = Str(<<"0", ".", "5">>)
  /\ LastConfig.integer /\ LastConfig.min = {1}
  /\ last.out.value = Num(5, 10)
  /\ last.out.error # NoError
  /\ last.out.error.message = "Value must be an integer"

(* The pattern matches the string somewhere. *)
PatternMatches(pattern, chars) ==
  \E i \in 0..Len(chars) : MatchesAt(pattern.source, chars, i)

(* C21: for a string descriptor and a non-empty raw string the checks run  *)
(* in the order minLength (fails iff the length is below it), maxLength    *)
(* (fails iff the length is above it), pattern (fails iff the pattern does *)
(* not match); the error returned is that of the first failing check, and  *)
(* the value is the raw string whether or not a check fails.               *)
C21_StringCheckOrder ==
  TypedCall("string") =>
    LET n       == Len(last.rawValue.c)
        short   == LastConfig.minLength # {} /\ n < The(LastConfig.minLength)
        long    == LastConfig.maxLength # {} /\ n > The(LastConfig.maxLength)
        nomatch == /\ LastConfig.pattern # NoPattern
                   /\ ~ PatternMatches(LastConfig.pattern, last.rawValue.c)
    IN /\ ~ last.out.raised
       /\ last.out.value = last.rawValue
       /\ IF short
          THEN /\ last.out.error # NoError
               /\ last.out.error.message =
                    "String is too short (minimum: "
                    \o Text(The(LastConfig.minLength)) \o " characters)"
          ELSE IF long
          THEN /\ last.out.error # NoError
               /\ last.out.error.message =
                    "String is too long (maximum: "
                    \o Text(The(LastConfig.maxLength)) \o " characters)"
          ELSE IF nomatch
          THEN /\ last.out.error # NoError
               /\ last.out.error.message =
                    "String does not match required pattern: "
                    \o RegExpText(LastConfig.pattern)
          ELSE last.out.error = NoError

(* C22: validateEnv and parseEnv agree on every input: parseEnv raises iff *)
(* validateEnv returns valid = false, the errors aggregated in parseEnv's  *)
(* failure are the errors of validateEnv in the same order, and when       *)
(* parseEnv returns, every key of the mapping is a schema key.             *)
C22_ValidateParseAgree ==
  [][ParseEnvStep =>
       /\ last'.out.raised
            <=> (~ validateEnv(env, schema).raised /\ ~ validateEnv(env, schema).valid)
       /\ last'.out.raised
            => /\ ~ validateEnv(env, schema).raised
               /\ last'.out.exception =
                    "Environment validation failed:\n"
                    \o formatValidationErrors(validateEnv(env, schema).errors)
       /\ ~ last'.out.raised
            => DOMAIN last'.out.result \subseteq SchemaKeys(schema)]_vars

(* C23: parseValue, validateEnv and parseEnv leave their inputs unchanged: *)
(* across every call the schema (each descriptor, the state of its pattern *)
(* included) and the raw environment are exactly as before the call.       *)
C23_InputsUnchanged ==
  [][last'.op \in {"parseValue", "validateEnv", "parseEnv"}
       => (schema' = schema /\ env' = env)]_vars

(* The type tags parseValue recognizes, src/src/core/parser.ts:33-50 *)
EnvVarType == {"string", "number", "boolean", "url", "json", "enum"}

(* C24: for a descriptor with an unrecognized type tag and a non-empty raw *)
(* string, parseValue does not raise; it returns no value and an error for *)
(* that variable whose message names the tag.                              *)
C24_UnknownType ==
  (/\ last.op = "parseValue"
   /\ last.rawValue.t = "string" /\ Len(last.rawValue.c) > 0
   /\ LastConfig.type \notin EnvVarType)
    => /\ ~ last.out.raised
       /\ last.out.value = Undefined
       /\ last.out.error # NoError
       /\ last.out.error.variable = LastKey
       /\ last.out.error.message = "Unknown type: " \o LastConfig.type

C24_Witness ==
  /\ last.op = "parseValue"
  /\ last.rawValue = Str(<<"a", "b", "c">>)
  /\ LastConfig.type = "date"
  /\ LastConfig.default # Undefined
  /\ ~ last.out.raised
  /\ last.out.value = Undefined
  /\ last.out.error.message = "Unknown type: date"

(* The JSON text of a deserialized structure, without white space. *)
RECURSIVE JsonText(_)
RECURSIVE JsonTexts(_, _)
JsonTexts(values, names) ==
  IF values = <<>> THEN <<>>
  ELSE (IF names = <<>> THEN <<>> ELSE <<"\"">> \o Head(names) \o <<"\"", ":">>)
       \o JsonText(Head(values))
       \o (IF Len(values) > 1 THEN <<",">> ELSE <<>>)
       \o JsonTexts(Tail(values), IF names = <<>> THEN <<>> ELSE Tail(names))

JsonText(value) ==
  CASE value.t = "null"    -> <<"n","u","l","l">>
    [] value.t = "boolean" -> IF value.b THEN <<"t","r","u","e">> ELSE <<"f","a","l","s","e">>
    [] value.t = "number"  -> NumberToChars(value)
    [] value.t = "string"  -> <<"\"">> \o value.c \o <<"\"">>
    [] value.t = "array"   -> <<"[">> \o JsonTexts(value.items, <<>>) \o <<"]">>
    [] value.t = "object"  -> <<"{">> \o JsonTexts(value.values, value.keys) \o <<"}">>

(* C25: for a json descriptor and a non-empty raw string, a string that is *)
(* not well-formed JSON gives no value and the error "Invalid JSON         *)
(* format"; a well-formed one gives the deserialized structure, with no    *)
(* error and no further check, and that structure written back as JSON     *)
(* deserializes to itself.                                                 *)
C25_JsonRoundTrip ==
  TypedCall("json") =>
    /\ ~ last.out.raised
    /\ IF JsonParse(last.rawValue).ok
       THEN /\ last.out.error = NoError
            /\ last.out.value = JsonParse(last.rawValue).value
            /\ last.out.value.t \in {"object", "array", "string", "number", "boolean", "null"}
            /\ JsonParse(Str(JsonText(last.out.value)))
                 = [ok |-> TRUE, value |-> last.out.value]
       ELSE /\ last.out.value = Undefined
            /\ last.out.error =
                 [variable |-> LastKey, message |-> "Invalid JSON format",
                  expected |-> "valid JSON string", received |-> last.rawValue]

C25_Witness ==
  /\ TypedCall("json")
  /\ last.rawValue = Str(<<"{","\"","a","\"",":","[","1","]","}">>)
  /\ last.out.error = NoError
  /\ last.out.value = JsonObject(<< <<"a">> >>, <<JsonArray(<<Num(1, 1)>>)>>)
  /\ JsonText(last.out.value) = last.rawValue.c

(* A step that is a parseValue call on a non-empty raw string. *)
SuppliedStep ==
  /\ last'.op = "parseValue"
  /\ last'.rawValue.t = "string" /\ Len(last'.rawValue.c) > 0

(* C26: a supplied value takes precedence over the default: for a          *)
(* non-empty raw string the value and the error parseValue returns are     *)
(* those it returns for the same descriptor with no default and required   *)
(* left out, so the default and required fields play no part: the default  *)
(* is never returned in place of the value and a failure is reported even  *)
(* when a default exists or required is false.                             *)
C26_SuppliedValueWins ==
  [][SuppliedStep =>
       Outcome(parseValue(last'.rawValue,
                          [schema[last'.index].config EXCEPT !.default = Undefined,
                                                             !.required = "absent"],
                          schema[last'.index].key))
         = last'.out]_vars

C26_Witness ==
  /\ TypedCall("number")
  /\ LastConfig.default = Num(3000, 1) /\ LastConfig.required = "false"
  /\ last.rawValue = Str(<<"a", "b", "c">>)
  /\ last.out.value = NaN
  /\ last.out.error # NoError

----------------------------------------------------------------------------
(* C27 *)

ValidateCommandStep ==
  last'.op = "validateCommand" /\ \E run \in CommandRuns : ValidateCommandCall(run)

(* The console line at position p reports error number n of the result. *)
ReportsError(console, p, errors, n) ==
  /\ p < Len(console)
  /\ console[p].text = "  " \o Text(n) \o ". " \o errors[n].variable
  /\ console[p + 1].text = "     " \o errors[n].message

(* Every error of the result is on the console, and every warning is on   *)
(* it after the errors.                                                    *)
ReportsAll(console, result) ==
  /\ \A n \in 1..Len(result.errors) :
       \E p \in 1..Len(console) : ReportsError(console, p, result.errors, n)
  /\ \A k \in 1..Len(result.warnings) :
       \E q \in 1..Len(console) :
         /\ console[q].text = "  ! " \o result.warnings[k]
         /\ \A n \in 1..Len(result.errors), p \in 1..Len(console) :
              ReportsError(console, p, result.errors, n) => p < q

(* C27: the validate command, with the .env file and the schema loaded,    *)
(* reports every error of the validation result and then every warning     *)
(* before it ends, and ends with a non-zero code exactly when the result   *)
(* has an error; with the .env file, the config file or the schema export  *)
(* missing it ends with a non-zero code.                                   *)
C27_CommandReportsAndExits ==
  [][ValidateCommandStep =>
       LET run == last'.run
           result == validateEnv(env, schema)
       IN IF run.env /\ run.config /\ run.export
          THEN /\ ~ result.raised
               /\ ReportsAll(last'.console, result)
               /\ (last'.exit # 0) <=> (Len(result.errors) > 0)
          ELSE last'.exit # 0]_vars

----------------------------------------------------------------------------
(* C28 *)

(* The latest call was parseValue on a non-empty raw string against a      *)
(* descriptor of the given type, and it returned no error.                 *)
AcceptedCall(type) ==
  /\ TypedCall(type)
  /\ ~ last.out.raised
  /\ last.out.error = NoError

(* C28: a value parseValue returns without error for a non-empty raw       *)
(* string satisfies every constraint of its descriptor: a string has       *)
(* minLength <= length <= maxLength and matches pattern; a number is not   *)
(* NaN, is an integer when integer is set and lies within [min, max]; a    *)
(* boolean is true or false; an enum value is a member of values; a url's  *)
(* scheme is among protocols when protocols is set.                        *)
C28_AcceptedValueSatisfiesConstraints ==
  LET v == last.out.value
      c == LastConfig
  IN /\ AcceptedCall("string") =>
          /\ v.t = "string"
          /\ c.minLength # {} => Len(v.c) >= The(c.minLength)
          /\ c.maxLength # {} => Len(v.c) <= The(c.maxLength)
          /\ c.pattern # NoPattern => PatternMatches(c.pattern, v.c)
     /\ AcceptedCall("number") =>
          /\ v.t = "number" /\ ~ IsNaN(v)
          /\ c.integer => v.d = 1
          /\ c.min # {} => AtLeast(v, The(c.min))
          /\ c.max # {} => AtMost(v, The(c.max))
     /\ AcceptedCall("boolean") => v \in {Bool(TRUE), Bool(FALSE)}
     /\ AcceptedCall("enum") =>
          /\ v.t = "string"
          /\ \E i \in 1..Len(c.values) : c.values[i] = Join(v.c)
     /\ AcceptedCall("url") =>
          /\ v.t = "string"
          /\ c.protocols # NoList => Allowed(SchemeOf(v), c.protocols)

C28_Witness ==
  /\ AcceptedCall("string")
  /\ LastConfig.minLength = {2} /\ LastConfig.maxLength = {3}
  /\ LastConfig.pattern # NoPattern
  /\ last.out.value = Str(<<"a", "b", "c">>)

----------------------------------------------------------------------------
(* C29 *)

(* The descriptor c with the default and required fields of the latest     *)
(* call's descriptor.                                                      *)
WithLastCommon(c) ==
  [c EXCEPT !.default = LastConfig.default, !.required = LastConfig.required]

(* The entries of the schema with an unrecognized type that are optional   *)
(* or have a default, and whose raw value is absent or empty.              *)
LenientUnknownKeys ==
  {i \in 1..Len(schema) :
     /\ schema[i].config.type \notin EnvVarType
     /\ (schema[i].config.required = "false" \/ schema[i].config.default # Undefined)
     /\ AbsentOrEmpty(Lookup(env, schema[i].key))}

(* C29: for an absent or empty raw value, parseValue's outcome depends on  *)
(* the default and required fields only: any descriptor with the same two  *)
(* fields, whatever its type tag and constraints, gives the same value and *)
(* the same error but for the type name in expected, and is left as it     *)
(* was.  So validateEnv reports no error for a key of unrecognized type    *)
(* that is optional or has a default when its raw value is absent or       *)
(* empty.                                                                  *)
C29_MissingIgnoresType ==
  /\ MissingCall =>
       \A c \in AllConfigs :
         LET o == parseValue(last.rawValue, WithLastCommon(c), LastKey)
         IN /\ ~ o.raised /\ ~ last.out.raised
            /\ o.config = WithLastCommon(c)
            /\ o.value = last.out.value
            /\ IF last.out.error = NoError
               THEN o.error = NoError
               ELSE /\ o.error # NoError
                    /\ o.error = [last.out.error EXCEPT !.expected = c.type \o " value"]
  /\ (last.op = "validateEnv" /\ LenientUnknownKeys # {}) =>
       /\ ~ last.out.raised
       /\ \A i \in LenientUnknownKeys :
            \A n \in 1..Len(last.out.errors) :
              last.out.errors[n].variable # schema[i].key

C29_Witness ==
  /\ last.op = "validateEnv"
  /\ LenientUnknownKeys = {1}
  /\ schema[1].config.type = "date"
  /\ schema[1].config.required = "false"
  /\ schema[1].config.default = Undefined
  /\ env = ("PORT" :> Str(<<>>))
  /\ last.out.valid

----------------------------------------------------------------------------
(* C30 *)

(* The entries of the schema whose raw value is absent or empty and whose  *)
(* descriptor defines a default.                                           *)
DefaultedKeys ==
  {i \in 1..Len(schema) :
     /\ AbsentOrEmpty(Lookup(env, schema[i].key))
     /\ schema[i].config.default # Undefined}

(* The descriptor rejects the value when it is supplied as raw input. *)
RejectsAsRaw(config, value, key) ==
  LET o == parseValue(Str(ToStringChars(value)), config, key)
  IN o.raised \/ o.error # NoError

(* C30: a default is returned as it is, neither coerced nor validated.     *)
(* For an absent or empty raw value and a defined default parseValue       *)
(* returns the default and no error, also when the descriptor rejects the  *)
(* default supplied as raw input, and the mapping parseEnv returns holds   *)
(* the default under each such key.                                        *)
C30_DefaultReturnedAsIs ==
  /\ (MissingCall /\ last.index \in DefaultedKeys) =>
       /\ ~ last.out.raised
       /\ last.out.error = NoError
       /\ last.out.value = LastConfig.default
  /\ (last.op = "parseEnv" /\ ~ last.out.raised) =>
       \A i \in DefaultedKeys :
         /\ schema[i].key \in DOMAIN last.out.result
         /\ last.out.result[schema[i].key] = schema[i].config.default

(* parseEnv returns a number below min, a string that does not match       *)
(* pattern or an enum value outside values, each one a default.            *)
C30_Witness ==
  /\ last.op = "parseEnv" /\ ~ last.out.raised
  /\ DefaultedKeys = {1}
  /\ RejectsAsRaw(schema[1].config, schema[1].config.default, schema[1].key)
  /\ \/ /\ schema[1].config.type = "number"
        /\ schema[1].config.min = {1}
        /\ last.out.result[schema[1].key] = Num(0, 1)
     \/ /\ schema[1].config.type = "string"
        /\ schema[1].config.pattern # NoPattern
        /\ last.out.result[schema[1].key] = Str(<<"x", "y">>)
     \/ /\ schema[1].config.type = "enum"
        /\ last.out.result[schema[1].key] = Str(<<"s","t","a","g","e">>)

====
